---- MODULE Spec2Model ----
(***************************************************************************)
(* Model of nestjs-better-auth-fastify: the authentication guard           *)
(* (src/auth.guard.ts), the hook registrar of the module                   *)
(* (src/auth.module.ts, setupHooks / setupHookMethod), the exception       *)
(* filter (src/auth.filter.ts), the module's registration (forRoot,        *)
(* forRootAsync, src/auth.module-definition.ts), and its CORS setup and    *)
(* catch-all route (src/auth.module.ts, configure).                        *)
(*                                                                         *)
(* JavaScript values are modelled as strings: "undefined", "null", and the *)
(* names of heap objects (object identity is the name).                    *)
(***************************************************************************)
EXTENDS Integers, Sequences, FiniteSets, TLC

(***************************************************************************)
(* Bounds                                                                  *)
(***************************************************************************)
MaxRequests == 2
MaxHookMethods == 2
MaxProviders == 2
MaxOrigins == 2

(***************************************************************************)
(* The provider (Better Auth), as seen by the guard                        *)
(***************************************************************************)
Undefined == "undefined"
Null == "null"

\* credentials a request's headers can carry
Tokens == {"none", "t1", "t2"}
\* session objects the provider can return and the user object each one holds
SessionObjects == {"S1", "S2"}
UserOf == [s \in SessionObjects |-> IF s = "S1" THEN "U1" ELSE "U2"]
\* errors a failing session lookup rejects with
ProviderErrors == {"ERR_NETWORK", "ERR_CONFIG"}
\* the error the guard constructs: new APIError('UNAUTHORIZED', {message})
UnauthorizedError == "APIError:UNAUTHORIZED"

\* auth.api.getSession({headers}) when the lookup succeeds
ProviderGetSession(headers) ==
    CASE headers = "t1" -> "S1"
      [] headers = "t2" -> "S2"
      [] OTHER -> Null

\* fromNodeHeaders(request.headers): the credentials are carried over as they are
FromNodeHeaders(headers) == headers

\* what the reflector yields for a decorator: nothing, or the value set by it
MetadataValues == {Undefined, "true"}

ContextTypes == {"http", "graphql", "ws", "rpc"}

\* an ExecutionContext of type t carrying request r in the place that type keeps it
MakeContext(t, r) ==
    [type |-> t,
     httpRequest |-> IF t = "http" THEN r ELSE 0,
     gqlReq |-> IF t = "graphql" THEN r ELSE 0,
     wsHandshake |-> IF t = "ws" THEN r ELSE 0,
     rpcRequest |-> IF t = "rpc" THEN r ELSE 0]

\* mutant: every check works on one shared request object
extractRequestFromExecutionContext_Shared(context) == 1

extractRequestFromExecutionContext(context) ==
    IF context.type = "graphql" THEN context.gqlReq
    ELSE IF context.type = "ws" THEN context.wsHandshake
    ELSE IF context.type = "rpc" THEN context.rpcRequest
    ELSE context.httpRequest

\* JavaScript truthiness of the values used here
Truthy(v) == v \notin {Undefined, Null, "false"}

\* session?.user ?? null
SessionUserOrNull(session) ==
    IF session \in {Undefined, Null} THEN Null ELSE UserOf[session]

(***************************************************************************)
(* Hook registrar: values                                                  *)
(***************************************************************************)
\* HOOKS: the two hook slots, in the order setupHookMethod visits them
HOOKS == <<"before", "after">>

\* routes of the provider a hook can be tagged with / a request can be on
Paths == {"/a", "/b"}
\* ctx.path of the requests hooks are run for: methods are tagged with any
\* of Paths, so a run meets tags equal to its path and tags different from it
CtxPaths == {"/a"}
\* metadata of a method for one slot: a path, or nothing
Tags == Paths \cup {Undefined}

\* Functions the chain can call are named by a pair: <<0, i>> is the hook the
\* application configured in slot HOOKS[i], <<p, m>> is method m of
\* provider p.  <<0, 0>> names nothing.
Nobody == <<0, 0>>
ConfiguredHookId(slot) == IF slot = "before" THEN <<0, 1>> ELSE <<0, 2>>
MethodId(p, m) == <<p, m>>

\* hook values: undefined, a hook configured by the application, or the
\* wrapper setupHookMethod creates
NoHook == [kind |-> "undefined"]
ConfiguredHook(slot) == [kind |-> "configured", id |-> ConfiguredHookId(slot)]
Wrapper(originalHook, hookPath, method) ==
    [kind |-> "wrapper", originalHook |-> originalHook, hookPath |-> hookPath,
     providerMethod |-> method]

\* options.auth.options.hooks: undefined, null or an object with two slots
HooksUndefined == [kind |-> "undefined", before |-> NoHook, after |-> NoHook]
HooksNull == [kind |-> "null", before |-> NoHook, after |-> NoHook]
HooksObject(b, a) == [kind |-> "object", before |-> b, after |-> a]

HooksConfigurations ==
    {HooksUndefined, HooksNull}
    \cup {HooksObject(b, a) : b \in {NoHook, ConfiguredHook("before")},
                              a \in {NoHook, ConfiguredHook("after")}}

\* the providers the discovery service can return
MethodDescriptors == [before : Tags, after : Tags]

\* non-empty method lists of at most n methods
MethodSeqs(n) == UNION {[1..k -> MethodDescriptors] : k \in 1..n}

\* a provider: whether its class carries @Hook, whether the container holds an
\* instance of it, and the methods the scanner finds on the instance's
\* prototype (none to scan without an instance)
ProvidersWithAtMost(n) ==
    {[hook |-> FALSE, instance |-> TRUE, methods |-> <<>>],
     [hook |-> TRUE, instance |-> FALSE, methods |-> <<>>]}
    \cup {[hook |-> TRUE, instance |-> TRUE, methods |-> ms] : ms \in MethodSeqs(n)}

RECURSIVE ProviderSeqs(_, _)
\* sequences of at most k providers with at most n methods in total
ProviderSeqs(k, n) ==
    IF k = 0 THEN {<<>>}
    ELSE {<<>>} \cup UNION {
            {<<p>> \o rest : rest \in ProviderSeqs(k - 1, n - Len(p.methods))} :
                p \in ProvidersWithAtMost(n)}

HookNoOutcome == [kind |-> "none", by |-> Nobody]
HookReturned(f) == [kind |-> "return", by |-> f]
HookThrew(f) == [kind |-> "throw", by |-> f]

NoRun == [slot |-> "none", path |-> "", thrower |-> Nobody, phase |-> "none",
          trace |-> <<>>, outcome |-> HookNoOutcome]

(***************************************************************************)
(* State                                                                   *)
(***************************************************************************)
VARIABLES
    pc,             \* per request: "absent", "received", "awaiting", "done"
    route,          \* per request: the route's metadata (public / optional)
    request,        \* per request: the request object (headers, session, user)
    pending,        \* per request: headers handed to the session lookup in flight
    outcome,        \* per request: what canActivate returned or threw
    getSessionCalls,\* per request: number of getSession invocations
    guardErrors,    \* errors constructed by the guard itself
    requestAtEntry, \* per request: the request object as canActivate found it
    settled         \* per request: how the provider settled the session lookup

VARIABLES
    hooks,          \* options.auth.options.hooks
    providers,      \* what discoveryService.getProviders() returns
    phase,          \* of the module: "constructed", "initialized", "failed"
    registeredCount,\* the count setupHooks logs
    hooksAtConstruction, \* hooks as the application configured them
    lastRun         \* the latest invocation of a hook slot by the provider

VARIABLES
    caught,         \* the exception AuthFilter.catch is handling, with its host
    filterReply,    \* the FastifyReply of that host
    filterOutcome   \* how AuthFilter.catch completed

VARIABLES
    wiringCall,     \* the static factory call that imported the module
    dynamicModule,  \* the DynamicModule that call returned
    moduleOptions   \* the value provided under AUTH_MODULE_OPTIONS

VARIABLES
    adapter,        \* the Fastify instance: CORS plugin, preHandler hooks, routes
    configureOutcome, \* how AuthModule.configure completed
    httpRequest,    \* the HTTP request being served
    httpStage,      \* "idle", "received", "routing", "replied", "passed"
    httpReply,      \* the FastifyReply of that request
    corsCheck,      \* what the per-request origin check did for that request
    forward         \* what the catch-all route did for that request

guardVars == <<pc, route, request, pending, outcome, getSessionCalls, guardErrors,
               requestAtEntry, settled>>
hookVars == <<hooks, providers, phase, registeredCount, hooksAtConstruction, lastRun>>
filterVars == <<caught, filterReply, filterOutcome>>
wiringVars == <<wiringCall, dynamicModule, moduleOptions>>
httpVars == <<adapter, configureOutcome, httpRequest, httpStage, httpReply, corsCheck, forward>>
restVars == <<filterVars, wiringVars, httpVars>>
vars == <<guardVars, hookVars, restVars>>

Requests == 1..MaxRequests

NoOutcome == [kind |-> "none", value |-> Undefined]
Returned(v) == [kind |-> "return", value |-> v]
Threw(e) == [kind |-> "throw", value |-> e]

GuardVarsInit ==
    /\ pc = [r \in Requests |-> "absent"]
    /\ route = [r \in Requests |-> [isPublic |-> Undefined, isOptional |-> Undefined]]
    /\ request = [r \in Requests |->
                    [headers |-> "none", session |-> Undefined, user |-> Undefined]]
    /\ pending = [r \in Requests |-> Undefined]
    /\ outcome = [r \in Requests |-> NoOutcome]
    /\ getSessionCalls = [r \in Requests |-> 0]
    /\ guardErrors = {}
    /\ requestAtEntry = request
    /\ settled = [r \in Requests |-> NoOutcome]

(***************************************************************************)
(* AuthGuard.canActivate                                                   *)
(***************************************************************************)
\* A request arrives for a route with the given metadata; requests are
\* numbered in order of arrival.
ReceiveRequest(r, isPublic, isOptional, headers, prior) ==
    /\ pc[r] = "absent"
    /\ \A q \in Requests : q < r => pc[q] # "absent"
    /\ pc' = [pc EXCEPT ![r] = "received"]
    /\ route' = [route EXCEPT ![r] = [isPublic |-> isPublic, isOptional |-> isOptional]]
    /\ request' = [request EXCEPT ![r] =
                      [headers |-> headers, session |-> prior, user |-> prior]]
    /\ UNCHANGED <<pending, outcome, getSessionCalls, guardErrors, requestAtEntry,
                   settled>>
    /\ UNCHANGED hookVars
    /\ UNCHANGED restVars

\* mutant: every route is treated as public
ReturnsBeforeLookup_Always(isPublic) == TRUE

\* mutant: the public flag is consulted only after the lookup
ReturnsBeforeLookup_AfterLookup(isPublic) == FALSE

\* the early exit of canActivate: if (isPublic) return true
ReturnsBeforeLookup(isPublic) == Truthy(isPublic)

\* canActivate up to its first suspension point: the public check and the
\* call of getSession.
CanActivateStart(r, contextType) ==
    LET req == extractRequestFromExecutionContext(MakeContext(contextType, r)) IN
    /\ pc[r] = "received"
    /\ requestAtEntry' = [requestAtEntry EXCEPT ![req] = request[req]]
    /\ IF ReturnsBeforeLookup(route[req].isPublic)
       THEN /\ outcome' = [outcome EXCEPT ![req] = Returned("true")]
            /\ pc' = [pc EXCEPT ![r] = "done"]
            /\ UNCHANGED <<pending, getSessionCalls>>
       ELSE /\ pending' = [pending EXCEPT ![req] = FromNodeHeaders(request[req].headers)]
            /\ getSessionCalls' = [getSessionCalls EXCEPT ![req] = @ + 1]
            /\ pc' = [pc EXCEPT ![r] = "awaiting"]
            /\ UNCHANGED outcome
    /\ UNCHANGED <<route, request, guardErrors, settled>>
    /\ UNCHANGED hookVars
    /\ UNCHANGED restVars

\* mutant: the final session check is missing
GuardDecision_NoEnforcement(isOptional, session) == Returned("true")

\* mutant: the optional flag is not honoured
GuardDecision_IgnoresOptional(isOptional, session) ==
    IF ~Truthy(session) THEN Threw(UnauthorizedError) ELSE Returned("true")

\* what canActivate does with a resolved session: the decision after the
\* request has been enriched
GuardDecision(isOptional, session) ==
    IF Truthy(isOptional) /\ ~Truthy(session) THEN Returned("true")
    ELSE IF ~Truthy(session) THEN Threw(UnauthorizedError)
    ELSE Returned("true")

\* a fresh object with the fields of object v
CopyOf(v) ==
    CASE v = "S1" -> "S1'"
      [] v = "S2" -> "S2'"
      [] OTHER -> v

\* mutant: the request is enriched only when a session was found
AttachSession_WhenPresent(req, session) ==
    IF Truthy(session)
    THEN [req EXCEPT !.session = session, !.user = SessionUserOrNull(session)]
    ELSE req

\* mutant: a copy of the session is attached ({...session})
AttachSession_Copy(req, session) ==
    [req EXCEPT !.session = CopyOf(session), !.user = SessionUserOrNull(session)]

\* the request object after enrichment
AttachSession(req, session) ==
    [req EXCEPT !.session = session, !.user = SessionUserOrNull(session)]

\* The session lookup resolves and canActivate runs to its end.
CanActivateResume(r) ==
    LET session == ProviderGetSession(pending[r])
        decision == GuardDecision(route[r].isOptional, session)
    IN
    /\ pc[r] = "awaiting"
    /\ request' = [request EXCEPT ![r] = AttachSession(request[r], session)]
    /\ outcome' = [outcome EXCEPT ![r] = decision]
    /\ guardErrors' = IF decision.kind = "throw"
                      THEN guardErrors \cup {decision.value} ELSE guardErrors
    /\ pc' = [pc EXCEPT ![r] = "done"]
    /\ pending' = [pending EXCEPT ![r] = Undefined]
    /\ settled' = [settled EXCEPT ![r] = Returned(session)]
    /\ UNCHANGED <<route, getSessionCalls, requestAtEntry>>
    /\ UNCHANGED hookVars
    /\ UNCHANGED restVars

\* mutant: the lookup failure is caught and the request is marked anonymous
RequestOnLookupFailure_Anonymous(req) == [req EXCEPT !.session = Null, !.user = Null]

\* the request object when the awaited lookup rejects: the assignments after
\* the await are not reached
RequestOnLookupFailure(req) == req

\* mutant: the guard catches the provider's error and denies the request
OnLookupFailure_Converted(e) == Threw(UnauthorizedError)

\* what canActivate does with a rejected session lookup: nothing is caught
OnLookupFailure(e) == Threw(e)

\* The session lookup rejects with error e.
CanActivateLookupFails(r, e) ==
    /\ pc[r] = "awaiting"
    /\ request' = [request EXCEPT ![r] = RequestOnLookupFailure(request[r])]
    /\ outcome' = [outcome EXCEPT ![r] = OnLookupFailure(e)]
    /\ pc' = [pc EXCEPT ![r] = "done"]
    /\ pending' = [pending EXCEPT ![r] = Undefined]
    /\ settled' = [settled EXCEPT ![r] = Threw(e)]
    /\ UNCHANGED <<route, getSessionCalls, guardErrors, requestAtEntry>>
    /\ UNCHANGED hookVars
    /\ UNCHANGED restVars

GuardNext ==
    \/ \E r \in Requests, p \in MetadataValues, o \in MetadataValues, h \in Tokens,
          prior \in {Undefined, Null} : ReceiveRequest(r, p, o, h, prior)
    \/ \E r \in Requests, t \in ContextTypes : CanActivateStart(r, t)
    \/ \E r \in Requests : CanActivateResume(r)
    \/ \E r \in Requests, e \in ProviderErrors : CanActivateLookupFails(r, e)


(***************************************************************************)
(* Hook registrar: AuthModule.setupHooks / setupHookMethod                 *)
(***************************************************************************)
HookVarsInitFor(h, ps) ==
    /\ hooks = h
    /\ providers = ps
    /\ phase = "constructed"
    /\ registeredCount = 0
    /\ hooksAtConstruction = h
    /\ lastRun = NoRun

HookVarsDefault == HookVarsInitFor(HooksObject(NoHook, NoHook), <<>>)

HookVarsInit ==
    \E h \in HooksConfigurations, ps \in ProviderSeqs(MaxProviders, MaxHookMethods) :
        HookVarsInitFor(h, ps)

\* Reflect.getMetadata(metadataKey, providerMethod) for the key of a slot
GetHookMetadata(slot, method) == IF slot = "before" THEN method.before ELSE method.after

\* mutant: the wrapper is assigned to both slots
SetSlot_Both(h, slot, hook) == [h EXCEPT !.before = hook, !.after = hook]

\* assignment to this.options.auth.options.hooks[hookType]
SetSlot(h, slot, hook) ==
    IF slot = "before" THEN [h EXCEPT !.before = hook] ELSE [h EXCEPT !.after = hook]

GetSlot(h, slot) == IF slot = "before" THEN h.before ELSE h.after

\* mutant: the wrapper replaces the hook of the slot instead of chaining to it
SpliceSlot_DropsOriginal(h, slot, method, id) ==
    LET hookPath == GetHookMetadata(slot, method) IN
    IF ~Truthy(hookPath) THEN h
    ELSE SetSlot(h, slot, Wrapper(NoHook, hookPath, id))

\* one iteration of the loop over HOOKS in setupHookMethod
SpliceSlot(h, slot, method, id) ==
    LET hookPath == GetHookMetadata(slot, method) IN
    IF ~Truthy(hookPath) THEN h
    ELSE SetSlot(h, slot, Wrapper(GetSlot(h, slot), hookPath, id))

setupHookMethod(h, method, id) ==
    IF h.kind # "object" THEN h
    ELSE SpliceSlot(SpliceSlot(h, HOOKS[1], method, id), HOOKS[2], method, id)

RECURSIVE SetupProviderMethods(_, _, _, _)
\* the loop over the method names of one provider, from method m on
SetupProviderMethods(h, p, methods, m) ==
    IF m > Len(methods) THEN h
    ELSE SetupProviderMethods(setupHookMethod(h, methods[m], MethodId(p, m)),
                              p, methods, m + 1)

\* the providers setupHooks keeps: those whose class carries @Hook
IsHookProvider(provider) == provider.hook

HasHookProviders(ps) == \E p \in 1..Len(ps) : IsHookProvider(ps[p])

\* typeof hooks === 'object'
HooksConfigured(h) == h.kind \in {"object", "null"}

\* mutant: the check for missing hooks configuration is absent
SetupHooksThrows_Never(h, ps) == FALSE

\* the condition under which setupHooks throws
SetupHooksThrows(h, ps) == HasHookProviders(ps) /\ ~HooksConfigured(h)

RECURSIVE SetupProviders(_, _, _)
\* the loop of setupHooks over the hook providers, from provider p on;
\* yields the hooks and the number of providers registered
SetupProviders(acc, ps, p) ==
    IF p > Len(ps) THEN acc
    ELSE IF ~IsHookProvider(ps[p]) THEN SetupProviders(acc, ps, p + 1)
    ELSE IF ~ps[p].instance THEN SetupProviders(acc, ps, p + 1)
    ELSE SetupProviders(
            [hooks |-> SetupProviderMethods(acc.hooks, p, ps[p].methods, 1),
             count |-> acc.count + 1],
            ps, p + 1)

\* onModuleInit: setupHooks as a whole
OnModuleInit ==
    /\ phase = "constructed"
    /\ IF SetupHooksThrows(hooks, providers)
       THEN /\ phase' = "failed"
            /\ UNCHANGED <<hooks, registeredCount>>
       ELSE IF ~HooksConfigured(hooks)
       THEN /\ phase' = "initialized"
            /\ UNCHANGED <<hooks, registeredCount>>
       ELSE LET done == SetupProviders([hooks |-> hooks, count |-> 0], providers, 1) IN
            /\ phase' = "initialized"
            /\ hooks' = done.hooks
            /\ registeredCount' = done.count
    /\ UNCHANGED <<providers, hooksAtConstruction, lastRun>>
    /\ UNCHANGED guardVars
    /\ UNCHANGED restVars

(***************************************************************************)
(* Execution of a hook by the provider                                     *)
(***************************************************************************)
EmptyRun == [trace |-> <<>>, outcome |-> HookReturned(Nobody)]

\* calling function f, which throws if it is the thrower
Call(f, thrower) ==
    [trace |-> <<f>>,
     outcome |-> IF f = thrower THEN HookThrew(f) ELSE HookReturned(f)]

\* mutant: the wrapper returns what the last function it awaited returned
WrapperBody_ReturnsLast(originalRun, hookPath, providerMethod, ctxPath, thrower) ==
    IF originalRun.outcome.kind = "throw" THEN originalRun
    ELSE IF hookPath = ctxPath
    THEN LET own == Call(providerMethod, thrower) IN
         [trace |-> originalRun.trace \o own.trace, outcome |-> own.outcome]
    ELSE originalRun

\* mutant: the new method runs before the original hook
WrapperBody_OwnFirst(originalRun, hookPath, providerMethod, ctxPath, thrower) ==
    LET own == IF hookPath = ctxPath THEN Call(providerMethod, thrower) ELSE EmptyRun IN
    IF own.outcome.kind = "throw" THEN own
    ELSE [trace |-> own.trace \o originalRun.trace,
          outcome |-> IF originalRun.outcome.kind = "throw" THEN originalRun.outcome
                      ELSE HookReturned(Nobody)]

\* mutant: the original hook runs only when the path matches
WrapperBody_OriginalOnMatch(originalRun, hookPath, providerMethod, ctxPath, thrower) ==
    IF hookPath # ctxPath THEN EmptyRun
    ELSE IF originalRun.outcome.kind = "throw" THEN originalRun
    ELSE LET own == Call(providerMethod, thrower) IN
         [trace |-> originalRun.trace \o own.trace,
          outcome |-> IF own.outcome.kind = "throw" THEN own.outcome
                      ELSE HookReturned(Nobody)]

\* mutant: an error of the original hook is caught and the chain goes on
WrapperBody_CatchesOriginal(originalRun, hookPath, providerMethod, ctxPath, thrower) ==
    IF hookPath = ctxPath
    THEN LET own == Call(providerMethod, thrower) IN
         [trace |-> originalRun.trace \o own.trace,
          outcome |-> IF own.outcome.kind = "throw" THEN own.outcome
                      ELSE HookReturned(Nobody)]
    ELSE [trace |-> originalRun.trace, outcome |-> HookReturned(Nobody)]

\* the body of the wrapper of setupHookMethod, given the run of originalHook
\* (EmptyRun if there is none)
WrapperBody(originalRun, hookPath, providerMethod, ctxPath, thrower) ==
    IF originalRun.outcome.kind = "throw" THEN originalRun
    ELSE IF hookPath = ctxPath
    THEN LET own == Call(providerMethod, thrower) IN
         [trace |-> originalRun.trace \o own.trace,
          outcome |-> IF own.outcome.kind = "throw" THEN own.outcome
                      ELSE HookReturned(Nobody)]
    ELSE [trace |-> originalRun.trace, outcome |-> HookReturned(Nobody)]

RECURSIVE RunHook(_, _, _)
\* hook(ctx) with ctx.path = ctxPath
RunHook(hook, ctxPath, thrower) ==
    IF hook.kind = "configured" THEN Call(hook.id, thrower)
    ELSE WrapperBody(
            IF hook.originalHook.kind # "undefined"
            THEN RunHook(hook.originalHook, ctxPath, thrower) ELSE EmptyRun,
            hook.hookPath, hook.providerMethod, ctxPath, thrower)

RECURSIVE CallablesIn(_)
\* the functions reachable from a hook value
CallablesIn(hook) ==
    IF hook.kind = "undefined" THEN {}
    ELSE IF hook.kind = "configured" THEN {hook.id}
    ELSE {hook.providerMethod} \cup CallablesIn(hook.originalHook)

\* the functions a hook calls on a path when none of them throws
CalledOn(hook, ctxPath) ==
    IF hook.kind = "undefined" THEN {}
    ELSE LET run == RunHook(hook, ctxPath, Nobody) IN
         {run.trace[i] : i \in 1..Len(run.trace)}

\* mutant: running a composed hook puts the hook it wraps back into the slot
HooksAfterRun_Unsplices(h, slot) ==
    IF GetSlot(h, slot).kind = "wrapper"
    THEN SetSlot(h, slot, GetSlot(h, slot).originalHook) ELSE h

\* the hooks configuration after a hook of it has run: the wrapper assigns
\* nothing
HooksAfterRun(h, slot) == h

\* The provider runs the hook of a slot for a request on path ctxPath; the
\* function named thrower, if called, throws.  Requests are served once the
\* module is initialized.
InvokeHook(slot, ctxPath, thrower) ==
    /\ phase = "initialized"
    /\ lastRun = NoRun
    /\ hooks.kind = "object"
    /\ GetSlot(hooks, slot).kind # "undefined"
    /\ thrower \in {Nobody} \cup CalledOn(GetSlot(hooks, slot), ctxPath)
    /\ LET run == RunHook(GetSlot(hooks, slot), ctxPath, thrower) IN
       lastRun' = [slot |-> slot, path |-> ctxPath, thrower |-> thrower,
                   phase |-> phase, trace |-> run.trace, outcome |-> run.outcome]
    /\ hooks' = HooksAfterRun(hooks, slot)
    /\ UNCHANGED <<providers, phase, registeredCount, hooksAtConstruction>>
    /\ UNCHANGED guardVars
    /\ UNCHANGED restVars

\* The provider takes the result of the hook and carries on with the request.
ProviderContinues ==
    /\ lastRun # NoRun
    /\ lastRun' = NoRun
    /\ UNCHANGED <<hooks, providers, phase, registeredCount, hooksAtConstruction>>
    /\ UNCHANGED guardVars
    /\ UNCHANGED restVars

HookNext ==
    \/ OnModuleInit
    \/ ProviderContinues
    \/ \E slot \in {"before", "after"}, path \in CtxPaths :
          \E t \in {Nobody} \cup CalledOn(GetSlot(hooks, slot), path) :
              InvokeHook(slot, path, t)

(***************************************************************************)
(* Module configuration (src/auth.module-definition.ts, forRoot and        *)
(* forRootAsync of src/auth.module.ts)                                     *)
(***************************************************************************)
OriginNames == <<"https://a.example", "https://b.example", "https://c.example",
                 "https://d.example">>
Origins == {OriginNames[i] : i \in 1..MaxOrigins}

\* values of auth.options.trustedOrigins: absent, null, '', an array of
\* strings, an array of numbers, a function, a plain string
TrustedOriginsValues ==
    {[kind |-> "undefined", list |-> {}],
     [kind |-> "null", list |-> {}],
     [kind |-> "emptyString", list |-> {}],
     [kind |-> "arrayOfNumbers", list |-> {}],
     [kind |-> "function", list |-> {}],
     [kind |-> "string", list |-> {}]}
    \cup {[kind |-> "arrayOfStrings", list |-> l] : l \in {{OriginNames[1]}, Origins}}

\* values of auth.options.basePath: absent or a string, a string being the
\* sequence of its slashes and path segments
BasePathValues ==
    {[defined |-> FALSE, chars |-> <<>>],
     [defined |-> TRUE, chars |-> <<"/", "api", "/", "auth">>],
     [defined |-> TRUE, chars |-> <<"auth", "/">>]}

AuthInstances == [trustedOrigins : TrustedOriginsValues, basePath : BasePathValues]
DefaultAuth == [trustedOrigins |-> [kind |-> "undefined", list |-> {}],
                basePath |-> [defined |-> FALSE, chars |-> <<>>]]

\* what an application writes for a feature toggle
ToggleValues == {Undefined, "false", "true"}

\* the keys setExtras declares, with their defaults
ExtrasDefaults ==
    [isGlobal |-> "true", disableExceptionFilter |-> "false",
     disableGlobalAuthGuard |-> "false", disableTrustedOriginsCors |-> "false"]

AUTH_MODULE_OPTIONS == "AUTH_MODULE_OPTIONS"
APP_GUARD == "APP_GUARD:AuthGuard"
APP_FILTER == "APP_FILTER:AuthFilter"

\* AuthModuleConfig & Partial<ExtraOptions>
Config(auth, isGlobal, noFilter, noGuard, noCors) ==
    [auth |-> auth, isGlobal |-> isGlobal, disableExceptionFilter |-> noFilter,
     disableGlobalAuthGuard |-> noGuard, disableTrustedOriginsCors |-> noCors]
NoConfig == Config(DefaultAuth, Undefined, Undefined, Undefined, Undefined)

\* the options object of forRootAsync: the factory, given by the config it
\* returns, and the extras written next to it
AsyncOptions(factoryResult, isGlobal, noFilter, noGuard, noCors) ==
    [useFactory |-> factoryResult, isGlobal |-> isGlobal,
     disableExceptionFilter |-> noFilter, disableGlobalAuthGuard |-> noGuard,
     disableTrustedOriginsCors |-> noCors]

NoCall == [method |-> "none", options |-> NoConfig, asyncOptions |->
              AsyncOptions(NoConfig, Undefined, Undefined, Undefined, Undefined)]
NoModule == [providers |-> {}, exports |-> {}, global |-> Undefined]

WiringVarsInit ==
    /\ wiringCall = NoCall
    /\ dynamicModule = NoModule
    /\ moduleOptions = NoConfig

\* the options without the keys declared as extras: the value the generated
\* forRoot provides under the options injection token
OmitExtras(options) ==
    [key \in DOMAIN options |->
        IF key \in DOMAIN ExtrasDefaults THEN Undefined ELSE options[key]]

\* the module definition the builder generates, transformed by the callback
\* given to setExtras; an extra the caller left out takes its default
TransformedDefinition(extras) ==
    [providers |-> {AUTH_MODULE_OPTIONS},
     exports |-> {AUTH_MODULE_OPTIONS},
     global |-> IF extras.isGlobal = Undefined THEN ExtrasDefaults.isGlobal
                ELSE extras.isGlobal]

\* mutant: the exception filter is registered only together with the guard
GlobalProviders_Coupled(options) ==
    IF ~Truthy(options.disableGlobalAuthGuard)
    THEN {APP_GUARD} \cup
         (IF ~Truthy(options.disableExceptionFilter) THEN {APP_FILTER} ELSE {})
    ELSE {}

\* the providers forRoot and forRootAsync add, decided by the object they
\* were called with
GlobalProviders(options) ==
    (IF ~Truthy(options.disableGlobalAuthGuard) THEN {APP_GUARD} ELSE {})
    \cup (IF ~Truthy(options.disableExceptionFilter) THEN {APP_FILTER} ELSE {})

\* AuthModule.forRoot(options)
ForRoot(options) ==
    /\ wiringCall = NoCall
    /\ wiringCall' = [NoCall EXCEPT !.method = "forRoot", !.options = options]
    /\ LET forRootResult == TransformedDefinition(options) IN
       dynamicModule' = [forRootResult EXCEPT
                            !.providers = @ \cup GlobalProviders(options)]
    /\ moduleOptions' = OmitExtras(options)
    /\ UNCHANGED <<guardVars, hookVars, filterVars, httpVars>>

\* AuthModule.forRootAsync(options); the factory is run when the module is
\* instantiated and its result is the value provided under the token
ForRootAsync(options) ==
    /\ wiringCall = NoCall
    /\ wiringCall' = [NoCall EXCEPT !.method = "forRootAsync", !.asyncOptions = options]
    /\ LET forRootAsyncResult == TransformedDefinition(options) IN
       dynamicModule' = [forRootAsyncResult EXCEPT
                            !.providers = @ \cup GlobalProviders(options)]
    /\ moduleOptions' = options.useFactory
    /\ UNCHANGED <<guardVars, hookVars, filterVars, httpVars>>

(***************************************************************************)
(* The exception filter (src/auth.filter.ts)                               *)
(***************************************************************************)

\* exception.body: undefined, or an object whose message and code may be
\* undefined
NoBody == [kind |-> "undefined", message |-> Undefined, code |-> Undefined]
Bodies ==
    {NoBody} \cup [kind : {"object"},
                   message : {Undefined, "Unauthorized", "Too many requests"},
                   code : {Undefined, "UNAUTHORIZED", "RATE_LIMIT_EXCEEDED"}]
\* the APIErrors the provider raises
APIErrors == [statusCode : {400, 401, 429, 500}, body : Bodies]

\* request.url: path and query string as received
Urls == {"/", "/api/test", "/api/users/123/profile?include=settings&format=json"}

\* readings of the clock (new Date())
Instants == {0, 1}
\* Date.prototype.toISOString
ToISOString(now) == <<"ISO-8601", now>>

NoCaught == [exception |-> [statusCode |-> 0, body |-> NoBody], url |-> "", now |-> 0]
\* a fresh FastifyReply: status 200 until set, nothing sent
FreshReply == [statusCode |-> 200, headers |-> {}, sent |-> <<>>]

FilterVarsInit ==
    /\ caught = NoCaught
    /\ filterReply = FreshReply
    /\ filterOutcome = NoOutcome

\* reply.status(code)
ReplyStatus(reply, code) == [reply EXCEPT !.statusCode = code]
\* reply.send(payload)
ReplySend(reply, payload) == [reply EXCEPT !.sent = Append(@, payload)]

\* mutant: exception.body.message, without the optional chaining
OptionalMember_Unguarded(body, field) ==
    IF body.kind = "undefined" THEN [threw |-> TRUE, value |-> "TypeError"]
    ELSE [threw |-> FALSE, value |-> body[field]]

\* exception.body?.message, exception.body?.code
OptionalMember(body, field) ==
    [threw |-> FALSE,
     value |-> IF body.kind = "undefined" THEN Undefined ELSE body[field]]

\* mutant: the path without its query string
ErrorPath_WithoutQuery(url) ==
    IF url = "/api/users/123/profile?include=settings&format=json"
    THEN "/api/users/123/profile"
    ELSE url

\* path: request.url
ErrorPath(url) == url

ErrorResponse(exception, url, now) ==
    [statusCode |-> exception.statusCode,
     message |-> OptionalMember(exception.body, "message").value,
     error |-> OptionalMember(exception.body, "code").value,
     timestamp |-> ToISOString(now),
     path |-> ErrorPath(url)]

\* AuthFilter.catch(exception, host), host holding a request with this url and
\* a fresh reply
AuthFilterCatch(exception, url, now) ==
    /\ caught = NoCaught
    /\ caught' = [exception |-> exception, url |-> url, now |-> now]
    /\ IF \/ OptionalMember(exception.body, "message").threw
          \/ OptionalMember(exception.body, "code").threw
       THEN /\ filterOutcome' = Threw("TypeError")
            /\ filterReply' = FreshReply
       ELSE /\ filterOutcome' = Returned(Undefined)
            /\ filterReply' = ReplySend(ReplyStatus(FreshReply, exception.statusCode),
                                        ErrorResponse(exception, url, now))
    /\ UNCHANGED <<guardVars, hookVars, wiringVars, httpVars>>

\* The response is on the wire; the filter is a stateless singleton and the
\* next exception comes with its own host.
FilterRequestEnds ==
    /\ caught # NoCaught
    /\ caught' = NoCaught
    /\ filterReply' = FreshReply
    /\ filterOutcome' = NoOutcome
    /\ UNCHANGED <<guardVars, hookVars, wiringVars, httpVars>>

FilterNext ==
    \/ FilterRequestEnds
    \/ \E exception \in APIErrors, url \in Urls, now \in Instants :
          AuthFilterCatch(exception, url, now)

(***************************************************************************)
(* CORS setup and the catch-all route (src/auth.module.ts, configure)      *)
(***************************************************************************)
\* JavaScript truthiness, Array.isArray and typeof of a trustedOrigins value
IsFalsy(trustedOrigins) == trustedOrigins.kind \in {"undefined", "null", "emptyString"}
IsArray(trustedOrigins) == trustedOrigins.kind \in {"arrayOfStrings", "arrayOfNumbers"}
IsFunction(trustedOrigins) == trustedOrigins.kind = "function"

NoCors == [origin |-> {}, methods |-> {}, allowedHeaders |-> {},
           credentials |-> FALSE, maxAge |-> 0]
FreshAdapter == [cors |-> NoCors, preHandlers |-> 0, routes |-> {}]

InvalidTrustedOrigins == "Error: Invalid trustedOrigins configuration"

\* setupStaticCors: httpAdapter.enableCors(...)
setupStaticCors(fastify, origins) ==
    [fastify EXCEPT !.cors =
        [origin |-> origins.list,
         methods |-> {"GET", "POST", "PUT", "DELETE", "OPTIONS"},
         allowedHeaders |-> {"Content-Type", "Authorization", "X-Requested-With"},
         credentials |-> TRUE,
         maxAge |-> 86400]]

\* setupDynamicCors: fastifyInstance.addHook('preHandler', ...)
setupDynamicCors(fastify) == [fastify EXCEPT !.preHandlers = @ + 1]

Done(fastify) == [threw |-> FALSE, error |-> Undefined, fastify |-> fastify]
Failed(fastify, error) == [threw |-> TRUE, error |-> error, fastify |-> fastify]

\* this.options.disableTrustedOriginsCors
CorsDisabled(options) == Truthy(options.disableTrustedOriginsCors)

\* mutant: a value that is neither an array nor a function is skipped
setupCors_Lenient(options, fastify) ==
    LET trustedOrigins == options.auth.trustedOrigins IN
    IF CorsDisabled(options) THEN Done(fastify)
    ELSE IF IsFalsy(trustedOrigins) THEN Done(fastify)
    ELSE IF IsArray(trustedOrigins) THEN Done(setupStaticCors(fastify, trustedOrigins))
    ELSE IF IsFunction(trustedOrigins) THEN Done(setupDynamicCors(fastify))
    ELSE Done(fastify)

setupCors(options, fastify) ==
    LET trustedOrigins == options.auth.trustedOrigins IN
    IF CorsDisabled(options) THEN Done(fastify)
    ELSE IF IsFalsy(trustedOrigins) THEN Done(fastify)
    ELSE IF IsArray(trustedOrigins) THEN Done(setupStaticCors(fastify, trustedOrigins))
    ELSE IF IsFunction(trustedOrigins) THEN Done(setupDynamicCors(fastify))
    ELSE Failed(fastify, InvalidTrustedOrigins)

RECURSIVE StripLeadingSlashes(_)
StripLeadingSlashes(chars) ==
    IF chars # <<>> /\ Head(chars) = "/" THEN StripLeadingSlashes(Tail(chars))
    ELSE chars

RECURSIVE StripTrailingSlashes(_)
StripTrailingSlashes(chars) ==
    IF chars # <<>> /\ chars[Len(chars)] = "/"
    THEN StripTrailingSlashes(SubSeq(chars, 1, Len(chars) - 1))
    ELSE chars

\* `/${basePath.replace(/^\/+|\/+$/g, '')}`
NormalizedPath(basePath) ==
    <<"/">> \o StripTrailingSlashes(StripLeadingSlashes(basePath))

\* setupHandler: fastifyInstance.route({method, url, handler})
setupHandler(options, fastify) ==
    LET basePath == IF options.auth.basePath.defined
                    THEN options.auth.basePath.chars
                    ELSE <<"/", "api", "/", "auth">>
    IN [fastify EXCEPT !.routes = @ \cup
           {[method |-> {"GET", "POST"},
             url |-> NormalizedPath(basePath) \o <<"/", "*">>]}]

\* AuthModule.configure(), run once when the application starts
Configure ==
    /\ wiringCall # NoCall
    /\ configureOutcome = NoOutcome
    /\ LET cors == setupCors(moduleOptions, adapter) IN
       IF cors.threw
       THEN /\ configureOutcome' = Threw(cors.error)
            /\ adapter' = cors.fastify
       ELSE /\ configureOutcome' = Returned(Undefined)
            /\ adapter' = setupHandler(moduleOptions, cors.fastify)
    /\ UNCHANGED <<httpRequest, httpStage, httpReply, corsCheck, forward>>
    /\ UNCHANGED <<guardVars, hookVars, filterVars, wiringVars>>

\* ---- requests ----
\* request.url: slashes, path segments, and the query string after "?"
HttpUrls ==
    {<<"/", "api", "/", "auth", "/", "session">>,
     <<"/", "auth", "/", "callback", "?", "code=1">>,
     <<"/", "health">>}
\* requests: request.hostname is a host name or one that no URL can be built
\* from, request.body is parsed for POST only
HttpRequests ==
    {[method |-> m, url |-> u, origin |-> o, hostname |-> h,
      body |-> IF m = "POST" THEN "payload" ELSE Undefined] :
        m \in {"GET", "POST", "OPTIONS"}, u \in HttpUrls,
        o \in {Undefined} \cup Origins, h \in {"app.example", "bad host"}}
NoHttpRequest ==
    [method |-> "", url |-> <<>>, origin |-> Undefined, hostname |-> "", body |-> Undefined]

\* JSON.stringify of a request body
JsonStringify(body) == IF body = "payload" THEN "{\"payload\":true}" ELSE "null"

NoWebRequest == [url |-> <<>>, method |-> "", origin |-> Undefined, body |-> Undefined]

\* convertToWebApiRequest: new URL(request.url, `${protocol}://${hostname}`)
\* throws for a host no URL can be built from
convertToWebApiRequest(req) ==
    IF req.hostname = "bad host" THEN [threw |-> TRUE, value |-> NoWebRequest]
    ELSE [threw |-> FALSE,
          value |-> [url |-> <<"http", "://", req.hostname>> \o req.url,
                     method |-> req.method,
                     origin |-> req.origin,
                     body |-> IF Truthy(req.body) THEN JsonStringify(req.body)
                              ELSE Undefined]]

\* what the application's trustedOrigins function does for one request
OriginsResults ==
    {[kind |-> "throw", list |-> {}], [kind |-> "notArray", list |-> {}]}
    \cup {[kind |-> "array", list |-> l] : l \in SUBSET Origins}
NotCalled == [kind |-> "notCalled", list |-> {}]

NoCorsCheck == [ran |-> "no", result |-> NotCalled]

\* reply.header(name, value)
ReplyHeader(reply, name, value) ==
    [reply EXCEPT !.headers = {h \in @ : h[1] # name} \cup {<<name, value>>}]

\* what reply.send is given when it is not an object: a text, null, or
\* nothing at all
Payload(v) == [payload |-> v]

PreflightHeaders(reply, requestOrigin) ==
    LET r1 == ReplyHeader(reply, "Access-Control-Allow-Origin", requestOrigin)
        r2 == ReplyHeader(r1, "Access-Control-Allow-Methods",
                          "GET, POST, PUT, DELETE, OPTIONS")
        r3 == ReplyHeader(r2, "Access-Control-Allow-Headers",
                          "Content-Type, Authorization, X-Requested-With")
        r4 == ReplyHeader(r3, "Access-Control-Allow-Credentials", "true")
        r5 == ReplyHeader(r4, "Access-Control-Max-Age", "86400")
    IN ReplyHeader(r5, "Vary", "Origin")

RegularHeaders(reply, requestOrigin) ==
    LET r1 == ReplyHeader(reply, "Access-Control-Allow-Origin", requestOrigin)
        r2 == ReplyHeader(r1, "Access-Control-Allow-Credentials", "true")
    IN ReplyHeader(r2, "Vary", "Origin")

\* mutant: an array result allows every origin
IsAllowed_AnyArray(allowedOrigins, requestOrigin) == allowedOrigins.kind = "array"

\* Array.isArray(allowedOrigins) && allowedOrigins.includes(requestOrigin)
IsAllowed(allowedOrigins, requestOrigin) ==
    allowedOrigins.kind = "array" /\ requestOrigin \in allowedOrigins.list

\* the hook's outcome: the reply, and whether the request goes on to routing
HookOutcome(reply, stage, check) == [reply |-> reply, stage |-> stage, check |-> check]

\* mutant: a failed evaluation of a preflight is left to the route
CorsCatch_NoPreflightReply(req, reply, check) == HookOutcome(reply, "routing", check)

\* the catch block of the hook
CorsCatch(req, reply, check) ==
    IF req.method = "OPTIONS"
    THEN HookOutcome(ReplySend(ReplyStatus(reply, 204), Payload(Undefined)), "replied", check)
    ELSE HookOutcome(reply, "routing", check)

\* mutant: a failed evaluation allows the request's origin
CorsHook_FailOpen(req, reply, result) ==
    IF ~Truthy(req.origin) THEN HookOutcome(reply, "routing", [ran |-> "skipped", result |-> NotCalled])
    ELSE IF convertToWebApiRequest(req).threw
    THEN HookOutcome(RegularHeaders(reply, req.origin), "routing",
                     [ran |-> "failed", result |-> NotCalled])
    ELSE IF result.kind = "throw"
    THEN HookOutcome(RegularHeaders(reply, req.origin), "routing",
                     [ran |-> "failed", result |-> result])
    ELSE IF req.method = "OPTIONS"
    THEN HookOutcome(
            ReplySend(ReplyStatus(IF IsAllowed(result, req.origin)
                                  THEN PreflightHeaders(reply, req.origin)
                                  ELSE reply, 204), Payload(Undefined)),
            "replied", [ran |-> "evaluated", result |-> result])
    ELSE HookOutcome(IF IsAllowed(result, req.origin)
                     THEN RegularHeaders(reply, req.origin)
                     ELSE reply,
                     "routing", [ran |-> "evaluated", result |-> result])

\* the preHandler hook setupDynamicCors registers, the trustedOrigins function
\* settling with result when it is called
CorsHook(req, reply, result) ==
    IF ~Truthy(req.origin) THEN HookOutcome(reply, "routing", [ran |-> "skipped", result |-> NotCalled])
    ELSE IF convertToWebApiRequest(req).threw
    THEN CorsCatch(req, reply, [ran |-> "failed", result |-> NotCalled])
    ELSE IF result.kind = "throw"
    THEN CorsCatch(req, reply, [ran |-> "failed", result |-> result])
    ELSE IF req.method = "OPTIONS"
    THEN HookOutcome(
            ReplySend(ReplyStatus(IF IsAllowed(result, req.origin)
                                  THEN PreflightHeaders(reply, req.origin)
                                  ELSE reply, 204), Payload(Undefined)),
            "replied", [ran |-> "evaluated", result |-> result])
    ELSE HookOutcome(IF IsAllowed(result, req.origin)
                     THEN RegularHeaders(reply, req.origin)
                     ELSE reply,
                     "routing", [ran |-> "evaluated", result |-> result])

\* what auth.handler does with a forwarded request: it throws, or returns a
\* Response whose body, when there is one, can fail to be read
ResponseHeaderSets ==
    {{},
     {<<"content-type", "application/json">>},
     {<<"content-type", "application/json">>, <<"set-cookie", "session=abc">>}}
ProviderOutcomes ==
    [kind : {"response"}, status : {200, 401}, headers : ResponseHeaderSets,
     body : {Null, "{\"ok\":true}"}, textThrows : {FALSE}]
    \cup [kind : {"response"}, status : {200, 401}, headers : ResponseHeaderSets,
          body : {"{\"ok\":true}"}, textThrows : {TRUE}]
    \cup {[kind |-> "throw", status |-> 0, headers |-> {}, body |-> Null,
            textThrows |-> FALSE]}
NoProviderOutcome ==
    [kind |-> "none", status |-> 0, headers |-> {}, body |-> Null, textThrows |-> FALSE]

NoForward == [by |-> "none", calls |-> 0, webRequest |-> NoWebRequest,
              outcome |-> NoProviderOutcome]

HttpVarsInit ==
    /\ adapter = FreshAdapter
    /\ configureOutcome = NoOutcome
    /\ httpRequest = NoHttpRequest
    /\ httpStage = "idle"
    /\ httpReply = FreshReply
    /\ corsCheck = NoCorsCheck
    /\ forward = NoForward

\* A request arrives at the started application.
ReceiveHttpRequest(req) ==
    /\ configureOutcome = Returned(Undefined)
    /\ httpStage = "idle"
    /\ httpRequest' = req
    /\ httpStage' = "received"
    /\ httpReply' = FreshReply
    /\ corsCheck' = NoCorsCheck
    /\ forward' = NoForward
    /\ UNCHANGED <<adapter, configureOutcome>>
    /\ UNCHANGED <<guardVars, hookVars, filterVars, wiringVars>>

\* The preHandler hooks run: the origin check when dynamic CORS installed it.
PreHandler(result) ==
    /\ httpStage = "received"
    /\ IF adapter.preHandlers > 0
       THEN LET done == CorsHook(httpRequest, httpReply, result) IN
            /\ httpReply' = done.reply
            /\ httpStage' = done.stage
            /\ corsCheck' = done.check
       ELSE /\ httpStage' = "routing"
            /\ UNCHANGED <<httpReply, corsCheck>>
    /\ UNCHANGED <<adapter, configureOutcome, httpRequest, forward>>
    /\ UNCHANGED <<guardVars, hookVars, filterVars, wiringVars>>

\* the path of a url: what precedes the query string
RECURSIVE PathOf(_)
PathOf(url) ==
    IF url = <<>> \/ Head(url) = "?" THEN <<>>
    ELSE <<Head(url)>> \o PathOf(Tail(url))

\* the router: a url ending in "*" matches every path it is a prefix of
RouteMatches(r, req) ==
    LET prefix == SubSeq(r.url, 1, Len(r.url) - 1)
        path == PathOf(req.url)
    IN /\ req.method \in r.method
       /\ Len(path) >= Len(prefix)
       /\ SubSeq(path, 1, Len(prefix)) = prefix

\* the body of the handler's structured error response
AuthFailure(req, now) ==
    [statusCode |-> 500, message |-> "Internal authentication error",
     error |-> "AUTH_FAILURE", timestamp |-> ToISOString(now), path |-> req.url]

\* mutant: the handler has no catch block and the error leaves it
HandlerCatch_Rethrows(req, reply, now) == reply

\* the catch block of the handler
HandlerCatch(req, reply, now) ==
    ReplySend(ReplyStatus(reply, 500), AuthFailure(req, now))

RECURSIVE ForwardHeaders(_, _)
ForwardHeaders(reply, headers) ==
    IF headers = {} THEN reply
    ELSE LET h == CHOOSE x \in headers : TRUE IN
         ForwardHeaders(ReplyHeader(reply, h[1], h[2]), headers \ {h})

\* mutant: the provider's headers are not forwarded
Mirror_StatusAndBodyOnly(reply, response) ==
    ReplySend(ReplyStatus(reply, response.status), Payload(response.body))

\* the reply that mirrors a provider response whose body was read
Mirror(reply, response) ==
    ReplySend(ForwardHeaders(ReplyStatus(reply, response.status), response.headers),
              Payload(response.body))

\* The handler of the catch-all route, auth.handler settling with response.
CatchAllHandler(response, now) ==
    /\ httpStage = "routing"
    /\ \E r \in adapter.routes : RouteMatches(r, httpRequest)
    /\ httpStage' = "replied"
    /\ LET webRequest == convertToWebApiRequest(httpRequest) IN
       IF webRequest.threw
       THEN /\ forward' = [NoForward EXCEPT !.by = "catchAll"]
            /\ httpReply' = HandlerCatch(httpRequest, httpReply, now)
       ELSE /\ forward' = [by |-> "catchAll", calls |-> 1,
                           webRequest |-> webRequest.value, outcome |-> response]
            /\ httpReply' =
                 IF response.kind = "throw"
                 THEN HandlerCatch(httpRequest, httpReply, now)
                 ELSE IF response.body # Null /\ response.textThrows
                 THEN HandlerCatch(httpRequest,
                        ForwardHeaders(ReplyStatus(httpReply, response.status),
                                       response.headers), now)
                 ELSE Mirror(httpReply, response)
    /\ UNCHANGED <<adapter, configureOutcome, httpRequest, corsCheck>>
    /\ UNCHANGED <<guardVars, hookVars, filterVars, wiringVars>>

\* A request no route of this module matches goes to the rest of the
\* application.
OtherHandler ==
    /\ httpStage = "routing"
    /\ \A r \in adapter.routes : ~RouteMatches(r, httpRequest)
    /\ httpStage' = "passed"
    /\ forward' = [NoForward EXCEPT !.by = "other"]
    /\ UNCHANGED <<adapter, configureOutcome, httpRequest, httpReply, corsCheck>>
    /\ UNCHANGED <<guardVars, hookVars, filterVars, wiringVars>>

\* The request is over; the next one comes with its own reply.
HttpRequestEnds ==
    /\ httpStage \in {"replied", "passed"}
    /\ httpStage' = "idle"
    /\ httpRequest' = NoHttpRequest
    /\ httpReply' = FreshReply
    /\ corsCheck' = NoCorsCheck
    /\ forward' = NoForward
    /\ UNCHANGED <<adapter, configureOutcome>>
    /\ UNCHANGED <<guardVars, hookVars, filterVars, wiringVars>>

\* configurations whose registration toggles are left out
HttpConfigs ==
    {Config(auth, Undefined, Undefined, Undefined, noCors) :
        auth \in AuthInstances, noCors \in ToggleValues}
HttpAsyncOptions ==
    {AsyncOptions(config, Undefined, Undefined, Undefined, noCors) :
        config \in HttpConfigs, noCors \in {Undefined, "true"}}

HttpNext ==
    \/ \E options \in HttpConfigs : ForRoot(options)
    \/ \E options \in HttpAsyncOptions : ForRootAsync(options)
    \/ Configure
    \/ \E req \in HttpRequests : ReceiveHttpRequest(req)
    \/ \E result \in OriginsResults : PreHandler(result)
    \/ \E response \in ProviderOutcomes, now \in Instants :
          CatchAllHandler(response, now)
    \/ OtherHandler
    \/ HttpRequestEnds

\* every way of calling forRoot and forRootAsync for one provider instance
WiringConfigs ==
    {Config(DefaultAuth, isGlobal, noFilter, noGuard, noCors) :
        isGlobal \in {Undefined, "false"}, noFilter \in ToggleValues,
        noGuard \in ToggleValues, noCors \in {Undefined, "true"}}
WiringAsyncOptions ==
    {AsyncOptions(config, Undefined, noFilter, noGuard, Undefined) :
        config \in WiringConfigs, noFilter \in ToggleValues, noGuard \in ToggleValues}

WiringNext ==
    \/ \E options \in WiringConfigs : ForRoot(options)
    \/ \E options \in WiringAsyncOptions : ForRootAsync(options)

(***************************************************************************)
(* One application: startup, then requests of every kind side by side      *)
(***************************************************************************)
\* an application whose provider has a function for trustedOrigins and a
\* before hook of its own, with one hook provider of one method tagged for
\* both slots
AppAuth == [trustedOrigins |-> [kind |-> "function", list |-> {}],
            basePath |-> [defined |-> FALSE, chars |-> <<>>]]
AppConfigs == {Config(AppAuth, Undefined, Undefined, Undefined, Undefined)}
AppHooks == HooksObject(ConfiguredHook("before"), NoHook)
AppProviders ==
    <<[hook |-> TRUE, instance |-> TRUE,
       methods |-> <<[before |-> "/a", after |-> "/a"]>>]>>

\* the requests, and the answers of the provider, this application sees
AppHttpRequests ==
    {req \in HttpRequests :
        /\ req.method \in {"GET", "OPTIONS"}
        /\ req.url \in {<<"/", "api", "/", "auth", "/", "session">>, <<"/", "health">>}
        /\ req.origin \in {Undefined, OriginNames[1]}
        /\ req.hostname = "app.example"}
AppOriginsResults == {r \in OriginsResults : r.kind = "throw" \/ r.list = {OriginNames[1]}}
AppProviderOutcomes ==
    {o \in ProviderOutcomes :
        o.kind = "throw" \/ (o.status = 200 /\ o.headers = {} /\ o.body = Null)}
AppErrors == {e \in APIErrors : e.statusCode = 401 /\ e.body = NoBody}

\* configure() and onModuleInit() have both completed
Started == configureOutcome = Returned(Undefined) /\ phase = "initialized"

AppInit ==
    /\ GuardVarsInit
    /\ HookVarsInitFor(AppHooks, AppProviders)
    /\ FilterVarsInit
    /\ WiringVarsInit
    /\ HttpVarsInit

AppNext ==
    \/ \E options \in AppConfigs : ForRoot(options)
    \/ Configure
    \/ wiringCall # NoCall /\ OnModuleInit
    \/ \E p \in MetadataValues, h \in {"none", "t1"} :
          Started /\ ReceiveRequest(1, p, Undefined, h, Undefined)
    \/ CanActivateStart(1, "http")
    \/ CanActivateResume(1)
    \/ CanActivateLookupFails(1, "ERR_NETWORK")
    \/ \E slot \in {"before", "after"} :
          \E t \in {Nobody} \cup CalledOn(GetSlot(hooks, slot), "/a") :
              Started /\ InvokeHook(slot, "/a", t)
    \/ ProviderContinues
    \/ \E req \in AppHttpRequests : Started /\ ReceiveHttpRequest(req)
    \/ \E result \in AppOriginsResults : PreHandler(result)
    \/ \E response \in AppProviderOutcomes : CatchAllHandler(response, 0)
    \/ OtherHandler
    \/ HttpRequestEnds
    \/ \E exception \in AppErrors : Started /\ AuthFilterCatch(exception, "/api/test", 0)
    \/ FilterRequestEnds

AppSpec == AppInit /\ [][AppNext]_vars

\* the module with any hooks configuration and any discovered providers, no
\* request being checked by the guard
HookInit ==
    /\ GuardVarsInit
    /\ HookVarsInit
    /\ FilterVarsInit
    /\ WiringVarsInit
    /\ HttpVarsInit

HookSpec == HookInit /\ [][HookNext]_vars

\* the guard of an application that configured an empty hooks object and
\* registers no hook provider
GuardInit ==
    /\ GuardVarsInit
    /\ HookVarsDefault
    /\ FilterVarsInit
    /\ WiringVarsInit
    /\ HttpVarsInit

GuardSpec == GuardInit /\ [][GuardNext]_vars

\* the exception filter of that application, no request being checked by the
\* guard
FilterInit ==
    /\ GuardVarsInit
    /\ HookVarsDefault
    /\ FilterVarsInit
    /\ WiringVarsInit
    /\ HttpVarsInit

FilterSpec == FilterInit /\ [][FilterNext]_vars

\* the module class before any application imports it
WiringInit ==
    /\ GuardVarsInit
    /\ HookVarsDefault
    /\ FilterVarsInit
    /\ WiringVarsInit
    /\ HttpVarsInit

WiringSpec == WiringInit /\ [][WiringNext]_vars

\* the application importing the module, starting and serving requests
HttpSpec == WiringInit /\ [][HttpNext]_vars

(***************************************************************************)
(* Claims about the guard                                                  *)
(***************************************************************************)
IsPublic(r) == Truthy(route[r].isPublic)
IsOptional(r) == Truthy(route[r].isOptional)
NoSessionResolved(r) == settled[r].kind = "return" /\ ~Truthy(settled[r].value)
SessionResolved(r) == settled[r].kind = "return" /\ settled[r].value \in SessionObjects

\* C1: on a route marked public the guard returns true and getSession is
\* never invoked during that check.
C1_PublicAllowsWithoutLookup ==
    \A r \in Requests :
        (pc[r] # "absent" /\ IsPublic(r)) =>
            /\ getSessionCalls[r] = 0
            /\ pc[r] # "awaiting"
            /\ pc[r] = "done" => outcome[r] = Returned("true")

C1_Witness ==
    \E r \in Requests :
        /\ pc[r] = "done" /\ IsPublic(r) /\ request[r].headers = "t1"
        /\ outcome[r] = Returned("true")

\* C2: on a route neither public nor optional, a lookup that resolves to no
\* session ends in the UNAUTHORIZED error, never in allow.
C2_ProtectedWithoutSessionDenied ==
    \A r \in Requests :
        (pc[r] = "done" /\ ~IsPublic(r) /\ ~IsOptional(r) /\ NoSessionResolved(r)) =>
            outcome[r] = Threw(UnauthorizedError)

C2_Witness ==
    \E r \in Requests :
        /\ pc[r] = "done" /\ ~IsPublic(r) /\ ~IsOptional(r) /\ NoSessionResolved(r)
        /\ outcome[r].kind = "throw"

\* C3: on an optional, non-public route, a lookup that resolves to no session
\* ends in allow with request.session = null and request.user = null.
C3_OptionalWithoutSessionAllowed ==
    \A r \in Requests :
        (pc[r] = "done" /\ ~IsPublic(r) /\ IsOptional(r) /\ NoSessionResolved(r)) =>
            /\ outcome[r] = Returned("true")
            /\ request[r].session = Null
            /\ request[r].user = Null

C3_Witness ==
    \E r \in Requests :
        /\ pc[r] = "done" /\ ~IsPublic(r) /\ IsOptional(r) /\ NoSessionResolved(r)
        /\ requestAtEntry[r].session = Undefined
        /\ request[r].session = Null

\* C4: on a non-public route, a lookup that resolves to session S ends in
\* allow with request.session being S itself and request.user being S.user.
C4_SessionAttachedByIdentity ==
    \A r \in Requests :
        (pc[r] = "done" /\ ~IsPublic(r) /\ SessionResolved(r)) =>
            /\ outcome[r] = Returned("true")
            /\ request[r].session = settled[r].value
            /\ request[r].user = UserOf[settled[r].value]

C4_Witness ==
    \E r, q \in Requests :
        /\ pc[r] = "done" /\ ~IsPublic(r) /\ IsOptional(r) /\ request[r].session = "S1"
        /\ pc[q] = "done" /\ ~IsPublic(q) /\ ~IsOptional(q) /\ request[q].session = "S2"

\* C5: the guard constructs no error but UNAUTHORIZED; a rejected lookup
\* surfaces as that same error, after a single call, with request.session
\* and request.user as they were on entry.
C5_ProviderErrorPropagates ==
    /\ guardErrors \subseteq {UnauthorizedError}
    /\ \A r \in Requests :
          settled[r].kind = "throw" =>
              /\ pc[r] = "done"
              /\ outcome[r] = Threw(settled[r].value)
              /\ getSessionCalls[r] = 1
              /\ request[r] = requestAtEntry[r]

C5_Witness ==
    \E r \in Requests :
        /\ settled[r] = Threw("ERR_NETWORK")
        /\ outcome[r] = Threw("ERR_NETWORK")
        /\ request[r].session = Null
        /\ UnauthorizedError \in guardErrors

\* C23: a finished check of a route not marked public has called getSession
\* exactly once, whether it ended in allow, in deny or in a provider error;
\* a check that is still waiting has called it once as well.
C23_ExactlyOneLookup ==
    \A r \in Requests :
        (pc[r] \in {"awaiting", "done"} /\ ~IsPublic(r)) => getSessionCalls[r] = 1

C23_Witness ==
    \E r, q \in Requests :
        /\ pc[r] = "done" /\ ~IsPublic(r) /\ outcome[r] = Threw(UnauthorizedError)
        /\ pc[q] = "done" /\ ~IsPublic(q) /\ outcome[q] = Threw("ERR_CONFIG")
        /\ getSessionCalls[r] = 1 /\ getSessionCalls[q] = 1

\* C25: a finished check of a public route leaves request.session and
\* request.user as they were on entry, whatever the credentials and the
\* optional flag.
C25_PublicLeavesRequestAlone ==
    \A r \in Requests :
        (pc[r] = "done" /\ IsPublic(r)) =>
            /\ request[r].session = requestAtEntry[r].session
            /\ request[r].user = requestAtEntry[r].user

C25_Witness ==
    \E r \in Requests :
        /\ pc[r] = "done" /\ IsPublic(r) /\ IsOptional(r)
        /\ request[r].headers = "t2"
        /\ request[r].session = Undefined /\ request[r].user = Undefined

\* C26: whenever a check has ended in the UNAUTHORIZED error, request.session
\* and request.user are null.
C26_DeniedRequestIsEnriched ==
    \A r \in Requests :
        outcome[r] = Threw(UnauthorizedError) =>
            /\ request[r].session = Null
            /\ request[r].user = Null

C26_Witness ==
    \E r \in Requests :
        /\ outcome[r] = Threw(UnauthorizedError)
        /\ requestAtEntry[r].session = Undefined /\ requestAtEntry[r].user = Undefined
        /\ request[r].session = Null /\ request[r].user = Null

\* the decision canActivate owes request r for the session its own headers
\* resolve to and its own route flags
OwnSession(r) == ProviderGetSession(FromNodeHeaders(request[r].headers))
OwnDecision(r) ==
    IF OwnSession(r) \in SessionObjects \/ IsOptional(r)
    THEN Returned("true") ELSE Threw(UnauthorizedError)

\* a step of request r's check leaves every other request as it was
OthersUntouched ==
    \A r, q \in Requests :
        (r # q /\ pc'[r] # pc[r]) =>
            /\ request'[q] = request[q]
            /\ outcome'[q] = outcome[q]
            /\ pending'[q] = pending[q]

\* C27: with the checks of several requests suspended at the lookup at the
\* same time, a lookup in flight carries the headers of its own request, a
\* check whose lookup resolved ends with the session and user of its own
\* headers and the decision for its own session and flags, and no step of
\* one check changes another request.
C27_InterleavedChecksAreIsolated ==
    /\ [](\A r \in Requests :
            /\ pc[r] = "awaiting" => pending[r] = FromNodeHeaders(request[r].headers)
            /\ (pc[r] = "done" /\ ~IsPublic(r) /\ settled[r].kind = "return") =>
                   /\ request[r].session = OwnSession(r)
                   /\ request[r].user = SessionUserOrNull(OwnSession(r))
                   /\ outcome[r] = OwnDecision(r))
    /\ [][OthersUntouched]_vars

C27_Witness ==
    /\ pc[1] = "awaiting" /\ pending[1] = "t1" /\ ~IsOptional(1)
    /\ pc[2] = "done" /\ request[2].headers = "none" /\ IsOptional(2)
    /\ request[2].session = Null /\ outcome[2] = Returned("true")
    /\ request[1].session # request[2].session

(***************************************************************************)
(* Claims about the hook registrar                                         *)
(***************************************************************************)
\* the methods setupHooks hands to setupHookMethod, and their order
ScannedMethods ==
    UNION {{MethodId(p, m) : m \in 1..Len(providers[p].methods)} :
              p \in {q \in 1..Len(providers) :
                        IsHookProvider(providers[q]) /\ providers[q].instance}}

IsScanned(f) == f \in ScannedMethods

TagOf(f, slot) == GetHookMetadata(slot, providers[f[1]].methods[f[2]])

\* f was registered before g (the configured hook of a slot precedes every method)
RegisteredBefore(f, g) == f[1] < g[1] \/ (f[1] = g[1] /\ f[2] < g[2])

Positions(trace, f) == {i \in 1..Len(trace) : trace[i] = f}

RunAfterInit == lastRun.slot # "none" /\ lastRun.phase = "initialized"

MethodsTagged(slot, path) == {f \in ScannedMethods : TagOf(f, slot) = path}

C7_OriginalHookRunsFirst ==
    /\ RunAfterInit =>
          LET configured == GetSlot(hooksAtConstruction, lastRun.slot) IN
          /\ configured.kind = "configured" =>
                /\ Len(lastRun.trace) >= 1
                /\ lastRun.trace[1] = configured.id
          /\ \A i, j \in 1..Len(lastRun.trace) :
                i < j => RegisteredBefore(lastRun.trace[i], lastRun.trace[j])
    /\ phase = "initialized" =>
          \A slot \in {"before", "after"} :
              GetSlot(hooksAtConstruction, slot).kind = "configured" =>
                  GetSlot(hooksAtConstruction, slot).id \in CallablesIn(GetSlot(hooks, slot))

C7_Witness ==
    /\ RunAfterInit
    /\ GetSlot(hooksAtConstruction, lastRun.slot).kind = "configured"
    /\ lastRun.trace = <<GetSlot(hooksAtConstruction, lastRun.slot).id>>
    /\ lastRun.outcome.kind = "return"
    /\ \E f \in CallablesIn(GetSlot(hooks, lastRun.slot)) :
          f[1] > 0 /\ TagOf(f, lastRun.slot) # lastRun.path

\* C8: a method of a hook provider without any path tag is spliced and runs
\* for every path.
C8_UntaggedMethodRunsAlways ==
    (RunAfterInit /\ lastRun.outcome.kind = "return") =>
        \A f \in MethodsTagged("before", Undefined) \cap MethodsTagged("after", Undefined) :
            /\ f \in CallablesIn(GetSlot(hooks, lastRun.slot))
            /\ Positions(lastRun.trace, f) # {}

\* C9: when a function of the chain throws, the composed hook ends with that
\* same error, the thrower is the last function that ran, and it ran once.
C9_HookErrorPropagates ==
    lastRun.slot # "none" =>
        IF Positions(lastRun.trace, lastRun.thrower) # {}
        THEN /\ lastRun.outcome = HookThrew(lastRun.thrower)
             /\ Positions(lastRun.trace, lastRun.thrower) = {Len(lastRun.trace)}
        ELSE lastRun.outcome.kind = "return"

C9_Witness ==
    /\ RunAfterInit
    /\ lastRun.outcome = HookThrew(ConfiguredHookId(lastRun.slot))
    /\ lastRun.trace = <<ConfiguredHookId(lastRun.slot)>>
    /\ MethodsTagged(lastRun.slot, lastRun.path) # {}

ExpectedCalls(slot, path) ==
    (IF GetSlot(hooksAtConstruction, slot).kind = "configured"
     THEN {ConfiguredHookId(slot)} ELSE {})
    \cup MethodsTagged(slot, path)

\* every function the last run called was to be called, and none ran twice
CallsOnlyExpectedOnce ==
    /\ \A i \in 1..Len(lastRun.trace) :
          lastRun.trace[i] \in ExpectedCalls(lastRun.slot, lastRun.path)
    /\ \A f \in ExpectedCalls(lastRun.slot, lastRun.path) :
          Cardinality(Positions(lastRun.trace, f)) <= 1

\* C28 as stated: every run of a slot on path P calls the hook configured
\* before splicing and each spliced method tagged P exactly once, and no
\* method tagged otherwise.
C28_EveryRunCallsEachOnce ==
    RunAfterInit =>
        /\ CallsOnlyExpectedOnce
        /\ \A f \in ExpectedCalls(lastRun.slot, lastRun.path) :
              Cardinality(Positions(lastRun.trace, f)) = 1

\* C28, amended: a run of a slot on path P calls no method tagged otherwise
\* and no function twice; a run in which no function throws calls the hook
\* configured before splicing and each spliced method tagged P exactly once;
\* in a run that ends in an error the functions registered after the thrower
\* are not called.
C28_CompletedRunCallsEachOnce ==
    RunAfterInit =>
        /\ CallsOnlyExpectedOnce
        /\ lastRun.outcome.kind = "return" =>
              \A f \in ExpectedCalls(lastRun.slot, lastRun.path) :
                  Cardinality(Positions(lastRun.trace, f)) = 1
        /\ lastRun.outcome.kind = "throw" =>
              \A f \in ExpectedCalls(lastRun.slot, lastRun.path) :
                  Positions(lastRun.trace, f) # {} <=>
                      (f = lastRun.thrower \/ RegisteredBefore(f, lastRun.thrower))

C28_Witness ==
    /\ RunAfterInit /\ lastRun.outcome.kind = "return"
    /\ Len(lastRun.trace) = 2
    /\ lastRun.trace[1] = ConfiguredHookId(lastRun.slot)
    /\ lastRun.trace[2] \in MethodsTagged(lastRun.slot, lastRun.path)
    /\ \E g \in ScannedMethods :
          /\ TagOf(g, lastRun.slot) \in Paths \ {lastRun.path}
          /\ g \in CallablesIn(GetSlot(hooks, lastRun.slot))

\* C29: a run of a slot that holds a wrapper of setupHookMethod either ends
\* with no value, whatever the configured hook and the methods returned, or
\* ends with the error of the function that threw.
C29_ComposedHookReturnsNothing ==
    (RunAfterInit /\ GetSlot(hooks, lastRun.slot).kind = "wrapper") =>
        /\ lastRun.outcome.kind = "return" => lastRun.outcome = HookReturned(Nobody)
        /\ lastRun.outcome.kind = "throw" =>
              /\ lastRun.outcome = HookThrew(lastRun.thrower)
              /\ lastRun.thrower # Nobody

C29_Witness ==
    /\ RunAfterInit /\ GetSlot(hooks, lastRun.slot).kind = "wrapper"
    /\ lastRun.thrower = Nobody
    /\ Len(lastRun.trace) = 2
    /\ lastRun.trace[1] = ConfiguredHookId(lastRun.slot)
    /\ lastRun.trace[2][1] > 0
    /\ lastRun.outcome = HookReturned(Nobody)

\* the scanned methods that carry a tag for a slot
SplicedInto(slot) == {f \in ScannedMethods : Truthy(TagOf(f, slot))}

FilterCaught == caught # NoCaught
MissingMessage(body) == body.kind = "undefined" \/ body.message = Undefined
MissingCode(body) == body.kind = "undefined" \/ body.code = Undefined

\* C11: for every provider error the filter catches it sends exactly one
\* response; the HTTP status is the error's statusCode and the body carries
\* statusCode = that status, message = the error body's message, error = the
\* error body's code, a timestamp, and path = the request URL verbatim, query
\* string included.
C11_FilterSendsMappedResponse ==
    FilterCaught =>
        /\ Len(filterReply.sent) = 1
        /\ filterReply.statusCode = caught.exception.statusCode
        /\ filterReply.sent[1].statusCode = caught.exception.statusCode
        /\ caught.exception.body.kind = "object" =>
              /\ filterReply.sent[1].message = caught.exception.body.message
              /\ filterReply.sent[1].error = caught.exception.body.code
        /\ filterReply.sent[1].timestamp = ToISOString(caught.now)
        /\ filterReply.sent[1].path = caught.url

C11_Witness ==
    /\ FilterCaught
    /\ caught.url = "/api/users/123/profile?include=settings&format=json"
    /\ caught.exception.statusCode = 429
    /\ caught.exception.body.kind = "object"
    /\ caught.exception.body.message = "Too many requests"
    /\ caught.exception.body.code = "RATE_LIMIT_EXCEEDED"
    /\ Len(filterReply.sent) = 1
    /\ filterReply.sent[1].path = caught.url

\* C12: for an error with no message, no code or no body at all the filter
\* does not fail and still sends the response with statusCode present; a
\* missing message or code is undefined in the response, no default is
\* substituted.
C12_FilterToleratesMissingFields ==
    (FilterCaught /\ (MissingMessage(caught.exception.body)
                        \/ MissingCode(caught.exception.body))) =>
        /\ filterOutcome = Returned(Undefined)
        /\ Len(filterReply.sent) = 1
        /\ filterReply.sent[1].statusCode = caught.exception.statusCode
        /\ MissingMessage(caught.exception.body) =>
              filterReply.sent[1].message = Undefined
        /\ MissingCode(caught.exception.body) =>
              filterReply.sent[1].error = Undefined

C12_Witness ==
    /\ FilterCaught
    /\ caught.exception.body = NoBody
    /\ caught.exception.statusCode = 500
    /\ filterOutcome = Returned(Undefined)
    /\ Len(filterReply.sent) = 1
    /\ filterReply.sent[1].message = Undefined
    /\ filterReply.sent[1].error = Undefined

(***************************************************************************)
(* Claims about CORS handling                                              *)
(***************************************************************************)
DynamicCors == adapter.preHandlers > 0
StaticCors == adapter.cors # NoCors
\* the preHandler hooks have run for the request being served
PreHandled == httpStage \in {"routing", "replied", "passed"}
AllowHeaderNames ==
    {"Access-Control-Allow-Origin", "Access-Control-Allow-Methods",
     "Access-Control-Allow-Headers", "Access-Control-Allow-Credentials",
     "Access-Control-Max-Age"}
AllowHeaders(reply) == {h \in reply.headers : h[1] \in AllowHeaderNames}
\* the origin check sent the 204 reply and the request went no further
NoContentFromCheck ==
    /\ httpStage = "replied"
    /\ forward.by = "none"
    /\ httpReply.statusCode = 204
    /\ httpReply.sent = <<Payload(Undefined)>>
\* the request went on to routing and only a route handler replied to it
LeftToRouteHandler ==
    /\ httpStage = "routing" => httpReply.sent = <<>> /\ httpReply.statusCode = 200
    /\ httpStage = "replied" => forward.by = "catchAll"
    /\ httpStage = "passed" => forward.by = "other" /\ httpReply.sent = <<>>

\* C13, as stated: with dynamic CORS every OPTIONS request receives a 204
\* response from the per-request check, whether the origin function returns or
\* throws.
C13_EveryOptionsGetsNoContent ==
    (DynamicCors /\ PreHandled /\ httpRequest.method = "OPTIONS") =>
        NoContentFromCheck

\* C13, amended: with dynamic CORS every OPTIONS request that carries an Origin
\* header receives a 204 response from the per-request check, whether the
\* origin function returns, or it or the request conversion throws; an OPTIONS
\* request without an Origin header gets no reply from the check and goes on
\* to routing.
C13_OptionsWithOriginGetsNoContent ==
    (DynamicCors /\ PreHandled /\ httpRequest.method = "OPTIONS") =>
        IF Truthy(httpRequest.origin)
        THEN NoContentFromCheck
        ELSE corsCheck.ran = "skipped" /\ LeftToRouteHandler

C13_Witness ==
    /\ DynamicCors
    /\ httpRequest.method = "OPTIONS"
    /\ Truthy(httpRequest.origin)
    /\ corsCheck.ran = "failed"
    /\ corsCheck.result.kind = "throw"
    /\ NoContentFromCheck

\* C14: with dynamic CORS the allow headers are on a reply only if the
\* request's Origin header is in the list the trusted-origins function
\* returned for that request, and Access-Control-Allow-Origin then equals that
\* Origin; a reply to a request whose Origin is outside the list carries none.
C14_AllowHeadersOnlyForListedOrigin ==
    (DynamicCors /\ PreHandled) =>
        \A h \in AllowHeaders(httpReply) :
            /\ corsCheck.result.kind = "array"
            /\ httpRequest.origin \in corsCheck.result.list
            /\ h[1] = "Access-Control-Allow-Origin" => h[2] = httpRequest.origin

C14_Witness ==
    /\ DynamicCors
    /\ httpStage = "replied"
    /\ forward.by = "catchAll"
    /\ corsCheck.result.kind = "array"
    /\ corsCheck.result.list = {OriginNames[1]}
    /\ httpRequest.origin = OriginNames[1]
    /\ <<"Access-Control-Allow-Origin", OriginNames[1]>> \in httpReply.headers

\* C15: with dynamic CORS, when converting the request or evaluating the
\* trusted-origins function throws on a non-OPTIONS request, no CORS header is
\* set and the request proceeds to its route handler: the check neither
\* replies to it nor grants it allow headers.
C15_FailedCheckProceedsWithoutHeaders ==
    (DynamicCors /\ PreHandled /\ corsCheck.ran = "failed"
        /\ httpRequest.method # "OPTIONS") =>
        /\ AllowHeaders(httpReply) = {}
        /\ \A h \in httpReply.headers : h[1] # "Vary"
        /\ LeftToRouteHandler

C15_Witness ==
    /\ DynamicCors
    /\ httpRequest.method = "POST"
    /\ Truthy(httpRequest.origin)
    /\ corsCheck.ran = "failed"
    /\ corsCheck.result.kind = "throw"
    /\ httpStage = "routing"
    /\ httpReply = FreshReply

ConfigureRan == configureOutcome # NoOutcome
TrustedOriginsKind == moduleOptions.auth.trustedOrigins.kind

\* C16, as stated: a trusted-origins setting that is neither a list of strings
\* nor a function makes setup fail with a configuration error; a list selects
\* static CORS only, a function the dynamic check only, an absent setting
\* installs no CORS handling.
C16_MalformedTrustedOriginsFails ==
    ConfigureRan =>
        /\ TrustedOriginsKind \notin {"undefined", "arrayOfStrings", "function"} =>
              configureOutcome = Threw(InvalidTrustedOrigins)
        /\ TrustedOriginsKind = "arrayOfStrings" => StaticCors /\ ~DynamicCors
        /\ TrustedOriginsKind = "function" => DynamicCors /\ ~StaticCors
        /\ TrustedOriginsKind = "undefined" => ~StaticCors /\ ~DynamicCors

\* C16, amended: unless the injected options disable CORS handling, a truthy
\* trusted-origins setting that is neither an array nor a function makes
\* configure throw the configuration error before any route is registered; an
\* array, whatever its elements, selects static CORS only; a function selects
\* the dynamic check only; an absent or otherwise falsy setting (null, '')
\* installs no CORS handling and raises no error.
C16_TruthyMalformedTrustedOriginsFails ==
    (ConfigureRan /\ ~Truthy(moduleOptions.disableTrustedOriginsCors)) =>
        /\ TrustedOriginsKind = "string" =>
              /\ configureOutcome = Threw(InvalidTrustedOrigins)
              /\ adapter = FreshAdapter
        /\ TrustedOriginsKind \in {"arrayOfStrings", "arrayOfNumbers"} =>
              /\ configureOutcome = Returned(Undefined)
              /\ StaticCors /\ ~DynamicCors
              /\ adapter.cors.origin = moduleOptions.auth.trustedOrigins.list
        /\ TrustedOriginsKind = "function" =>
              /\ configureOutcome = Returned(Undefined)
              /\ DynamicCors /\ ~StaticCors
        /\ TrustedOriginsKind \in {"undefined", "null", "emptyString"} =>
              /\ configureOutcome = Returned(Undefined)
              /\ ~StaticCors /\ ~DynamicCors

C16_Witness ==
    /\ TrustedOriginsKind = "string"
    /\ ~Truthy(moduleOptions.disableTrustedOriginsCors)
    /\ configureOutcome = Threw(InvalidTrustedOrigins)
    /\ adapter = FreshAdapter

\* the configuration the application wrote: the argument of forRoot, or what
\* the factory given to forRootAsync returns
WrittenConfig ==
    IF wiringCall.method = "forRootAsync" THEN wiringCall.asyncOptions.useFactory
    ELSE wiringCall.options

\* C17: when the module is configured with disableTrustedOriginsCors = true,
\* setup installs no CORS handling at all, neither static CORS nor the dynamic
\* per-request check, whatever trustedOrigins is.
C17_DisabledCorsInstallsNothing ==
    (ConfigureRan /\ WrittenConfig.disableTrustedOriginsCors = "true") =>
        /\ configureOutcome = Returned(Undefined)
        /\ ~StaticCors
        /\ ~DynamicCors

(***************************************************************************)
(* Claims about module registration                                        *)
(***************************************************************************)
\* C18: forRoot registers AuthGuard as a global guard exactly when
\* disableGlobalAuthGuard is not true and AuthFilter as a global exception
\* filter exactly when disableExceptionFilter is not true; each toggle decides
\* its own feature only, and both are registered when the toggles are left out.
C18_ForRootRegistersByToggle ==
    wiringCall.method = "forRoot" =>
        /\ APP_GUARD \in dynamicModule.providers
              <=> wiringCall.options.disableGlobalAuthGuard # "true"
        /\ APP_FILTER \in dynamicModule.providers
              <=> wiringCall.options.disableExceptionFilter # "true"

C18_Witness ==
    /\ wiringCall.method = "forRoot"
    /\ wiringCall.options.disableGlobalAuthGuard = "true"
    /\ wiringCall.options.disableExceptionFilter = Undefined
    /\ APP_GUARD \notin dynamicModule.providers
    /\ APP_FILTER \in dynamicModule.providers

\* C19: with forRootAsync, a configuration returned by the factory with
\* disableExceptionFilter = true results in AuthFilter not being registered as
\* a global exception filter.
C19_FactoryToggleHonoured ==
    (wiringCall.method = "forRootAsync"
        /\ wiringCall.asyncOptions.useFactory.disableExceptionFilter = "true") =>
        APP_FILTER \notin dynamicModule.providers

(***************************************************************************)
(* Claims about the catch-all route                                        *)
(***************************************************************************)
\* the path segments of a url or base path
Segments(chars) == SelectSeq(chars, LAMBDA c : c # "/")
ConfiguredBasePath ==
    IF moduleOptions.auth.basePath.defined THEN moduleOptions.auth.basePath.chars
    ELSE <<"/", "api", "/", "auth">>
\* a GET or POST request for a path below the configured base path
UnderBasePath(req) ==
    LET base == Segments(ConfiguredBasePath)
        path == Segments(PathOf(req.url))
    IN /\ req.method \in {"GET", "POST"}
       /\ Len(path) > Len(base)
       /\ SubSeq(path, 1, Len(base)) = base
RequestFinished == httpStage \in {"replied", "passed"}
\* the reply is the provider's response: its status, each of its headers, its
\* body or null
Mirrored ==
    /\ httpReply.statusCode = forward.outcome.status
    /\ forward.outcome.headers \subseteq httpReply.headers
    /\ httpReply.sent = <<Payload(forward.outcome.body)>>
ResponseReadable(response) ==
    response.kind = "response" /\ ~(response.body # Null /\ response.textThrows)

\* C20, as stated: for every GET or POST request under the configured base
\* path the catch-all route forwards the converted request to the provider
\* handler exactly once and replies with the provider response's status, every
\* header of it, and its body (null when it has none).
C20_EveryRequestForwardedAndMirrored ==
    (RequestFinished /\ UnderBasePath(httpRequest)) =>
        /\ forward.by = "catchAll"
        /\ forward.calls = 1
        /\ forward.webRequest = convertToWebApiRequest(httpRequest).value
        /\ Mirrored

\* C20, amended: every GET or POST request under the configured base path is
\* served by the catch-all route; when the request converts, the route
\* forwards the converted request to the provider handler exactly once, and
\* when the handler returns a response whose body can be read the reply has
\* that response's status, every header of it, and its body (null when it has
\* none); when conversion throws the handler is not called.
C20_ConvertedRequestForwardedAndMirrored ==
    (RequestFinished /\ UnderBasePath(httpRequest)) =>
        /\ forward.by = "catchAll"
        /\ IF convertToWebApiRequest(httpRequest).threw
           THEN forward.calls = 0
           ELSE /\ forward.calls = 1
                /\ forward.webRequest = convertToWebApiRequest(httpRequest).value
        /\ (forward.calls = 1 /\ ResponseReadable(forward.outcome)) => Mirrored

C20_Witness ==
    /\ RequestFinished
    /\ UnderBasePath(httpRequest)
    /\ httpRequest.method = "POST"
    /\ forward.calls = 1
    /\ forward.webRequest.body = JsonStringify("payload")
    /\ forward.outcome.kind = "response"
    /\ forward.outcome.status = 401
    /\ forward.outcome.body = Null
    /\ Cardinality(forward.outcome.headers) = 2
    /\ Mirrored

\* the handler of the catch-all route ran into an error: the conversion
\* threw, the provider handler threw, or the body could not be read
HandlerFailed ==
    forward.by = "catchAll" /\ (forward.calls = 0 \/ ~ResponseReadable(forward.outcome))

\* the body of the structured error response for the request at hand
IsAuthFailureBody(body) ==
    \E now \in Instants :
        body = [statusCode |-> 500, message |-> "Internal authentication error",
                error |-> "AUTH_FAILURE", timestamp |-> ToISOString(now),
                path |-> httpRequest.url]

\* C24: every request the catch-all route has handled got exactly one
\* reply: status 500 with the structured AUTH_FAILURE body naming the
\* request URL when the conversion, the provider handler or the reading of
\* the response threw, and the mirrored provider response otherwise.
C24_HandlerErrorsBecome500 ==
    (RequestFinished /\ forward.by = "catchAll") =>
        /\ Len(httpReply.sent) = 1
        /\ IF HandlerFailed
           THEN /\ httpReply.statusCode = 500
                /\ IsAuthFailureBody(httpReply.sent[1])
           ELSE Mirrored

C24_Witness ==
    /\ RequestFinished /\ HandlerFailed
    /\ forward.calls = 1
    /\ forward.outcome.kind = "response" /\ forward.outcome.textThrows
    /\ forward.outcome.status = 401
    /\ httpRequest.url = <<"/", "auth", "/", "callback", "?", "code=1">>
    /\ httpReply.statusCode = 500
    /\ IsAuthFailureBody(httpReply.sent[1])

(***************************************************************************)
(* Claims about the application as a whole                                 *)
(***************************************************************************)
\* C21 as stated: an error the provider throws is left to the exception
\* filter; the catch-all route, for one, sends no reply of its own for it.
C21_ProviderErrorLeftToFilter ==
    (RequestFinished /\ forward.outcome.kind = "throw") => httpReply.sent = <<>>

\* C21, amended: the guard ends with the very error its session lookup
\* rejected with, after one call; a composed hook ends with the error of the
\* function that threw; the handler of the catch-all route catches an error
\* of the provider handler after one call and replies 500 AUTH_FAILURE; the
\* CORS check catches an error of the trusted-origins function, answers a
\* preflight with 204 and lets any other request go on.
C21_ProviderErrorHandling ==
    /\ \A r \in Requests :
          settled[r].kind = "throw" =>
              /\ outcome[r] = settled[r]
              /\ getSessionCalls[r] = 1
    /\ (lastRun.slot # "none" /\ lastRun.outcome.kind = "throw") =>
          lastRun.outcome = HookThrew(lastRun.thrower)
    /\ (RequestFinished /\ forward.outcome.kind = "throw") =>
          /\ forward.calls = 1
          /\ httpReply.statusCode = 500
          /\ Len(httpReply.sent) = 1
          /\ httpReply.sent[1].error = "AUTH_FAILURE"
    /\ corsCheck.result.kind = "throw" =>
          /\ corsCheck.ran = "failed"
          /\ httpStage # "received"
          /\ httpRequest.method = "OPTIONS" => httpReply.statusCode = 204

C21_Witness ==
    /\ settled[1] = Threw("ERR_NETWORK") /\ outcome[1] = Threw("ERR_NETWORK")
    /\ lastRun.outcome = HookThrew(ConfiguredHookId("before"))
    /\ RequestFinished /\ forward.outcome.kind = "throw"
    /\ corsCheck.result.kind = "throw"
    /\ httpReply.statusCode = 500
    /\ caught = NoCaught

\* C22: hooks is assigned only by the step that takes the module from
\* constructed to initialized, the injected options only by the call that
\* defines the module, and once configure and onModuleInit have completed no
\* step of a guard check, of the catch-all handler, of the CORS check, of a
\* composed hook or of the filter changes either.
C22_ConfigurationWrittenAtStartupOnly ==
    [][/\ hooks' # hooks => (phase = "constructed" /\ phase' = "initialized")
       /\ moduleOptions' # moduleOptions => wiringCall = NoCall
       /\ Started => (hooks' = hooks /\ moduleOptions' = moduleOptions)]_vars

C22_Witness ==
    /\ Started
    /\ hooks # hooksAtConstruction
    /\ pc[1] = "awaiting"
    /\ lastRun.slot = "after" /\ Len(lastRun.trace) = 1
    /\ httpStage = "replied" /\ forward.by = "catchAll"
    /\ corsCheck.ran = "evaluated"
    /\ caught # NoCaught

====
